---- MODULE Spec2Model ----
(***************************************************************************)
(* Bio.PDB.Residue: Residue.add, Residue.mutate and the DisorderedResidue  *)
(* wrapper (add, disordered_add, disordered_remove).                       *)
(*                                                                         *)
(* Residues are objects r1, r2, r3; one DisorderedResidue wrapper and one  *)
(* chain exist.  A coordinate is modelled by the sequence of chi rotations *)
(* that have been applied to it, so that two coordinates are equal exactly *)
(* when the same rotations were applied in the same order.                 *)
(***************************************************************************)
EXTENDS Integers, Sequences, FiniteSets, TLC

VARIABLES resname, segid, id, parent, child_list,
          child_dict, selected_child, last

vars == <<resname, segid, id, parent, child_list, child_dict, selected_child, last>>

(***************************************************************************)
(* Bounds of the model.                                                    *)
(***************************************************************************)
\* largest number of atoms a residue is allowed to reach through add calls
MaxAtoms == 7
\* largest number of variants registered in the wrapper
MaxVariants == 3

None == "None"
OK == "ok"

Res == {"r1", "r2", "r3"}

ResNames == {"GLY", "ALA", "SER", "LYS"}

\* serial number given to the atoms mutate builds
serial_number == 9999

\* _atom_name_dict keys / the literal list of mutate's filter
BackboneNames == {"C", "N", "CA", "O"}

(***************************************************************************)
(* Atoms.  disordered is what atom.is_disordered() returns: 0 for an Atom, *)
(* 2 for a DisorderedAtom.                                                 *)
(***************************************************************************)
MkAtom(n, d, s, c) == [name |-> n, disordered |-> d, serial |-> s, coord |-> c]

NoAtom == MkAtom(None, 0, 0, <<>>)

\* Atom(name=atom, ..., coord=np.asarray(coord), altloc=" ", serial_number=9999)
NewAtom(n, c) == MkAtom(n, 0, serial_number, c)

BackboneAtoms == << MkAtom("N", 0, 1, <<>>), MkAtom("CA", 0, 2, <<>>),
                    MkAtom("C", 0, 3, <<>>), MkAtom("O", 0, 4, <<>>) >>

NamesOf(children) == {children[i].name : i \in DOMAIN children}

(***************************************************************************)
(* Entity (the generic container): has_id and add.                         *)
(***************************************************************************)
has_id(children, atom_id) == atom_id \in NamesOf(children)

EntityAdd(children, atom) == Append(children, atom)

(***************************************************************************)
(* Residue.add: the result of one call on a residue holding `children`.    *)
(***************************************************************************)
DuplicateAtom == "PDBConstructionException: defined twice"
BlankAltloc == "PDBConstructionException: blank altlocs"

\* Residue.add with the duplicate check left out
ResidueAdd_Unchecked(children, atom) ==
    [err |-> OK, children |-> EntityAdd(children, atom)]

ResidueAdd(children, atom) ==
    IF has_id(children, atom.name)
    THEN [err |-> DuplicateAtom, children |-> children]
    ELSE [err |-> OK, children |-> EntityAdd(children, atom)]

(***************************************************************************)
(* Rotamer metadata (Bio.PDB.rotamers): chi definitions and atom order.    *)
(***************************************************************************)
AngleList == <<"CHI1", "CHI2", "CHI3", "CHI4">>

CHI_ANGLES ==
    [CHI1 |-> [SER |-> [axis |-> <<"CA", "CB">>, ref_plane |-> <<"N", "CA", "CB", "OG">>],
               LYS |-> [axis |-> <<"CA", "CB">>, ref_plane |-> <<"N", "CA", "CB", "CG">>]],
     CHI2 |-> [LYS |-> [axis |-> <<"CB", "CG">>, ref_plane |-> <<"CA", "CB", "CG", "CD">>]],
     CHI3 |-> [LYS |-> [axis |-> <<"CG", "CD">>, ref_plane |-> <<"CB", "CG", "CD", "CE">>]],
     CHI4 |-> [LYS |-> [axis |-> <<"CD", "CE">>, ref_plane |-> <<"CG", "CD", "CE", "NZ">>]]]

RESIDUE_ORDER ==
    [GLY |-> <<"N", "CA", "C", "O">>,
     ALA |-> <<"N", "CA", "C", "O", "CB">>,
     SER |-> <<"N", "CA", "C", "O", "CB", "OG">>,
     LYS |-> <<"N", "CA", "C", "O", "CB", "CG", "CD", "CE", "NZ">>]

SeqRange(s) == {s[i] : i \in DOMAIN s}

IndexOf(s, x) == CHOOSE i \in DOMAIN s : s[i] = x

\* the slice taken from the axis's second atom instead of after it
AfterAxis_Inclusive(mutate_to, axis) ==
    LET order == RESIDUE_ORDER[mutate_to]
    IN  SubSeq(order, IndexOf(order, axis[2]), Len(order))

\* RESIDUE_ORDER[mutate_to][RESIDUE_ORDER[mutate_to].index(axis[1]) + 1 :]
AfterAxis(mutate_to, axis) ==
    LET order == RESIDUE_ORDER[mutate_to]
    IN  SubSeq(order, IndexOf(order, axis[2]) + 1, Len(order))

(***************************************************************************)
(* sample_residue: an insertion-ordered mapping atom name -> coordinate,   *)
(* held as a sequence of entries.                                          *)
(***************************************************************************)
Entry(n, c) == [name |-> n, coord |-> c]

Keys(sample) == {sample[i].name : i \in DOMAIN sample}

Get(sample, n) == sample[CHOOSE i \in DOMAIN sample : sample[i].name = n].coord

Put(sample, n, c) ==
    [i \in DOMAIN sample |-> IF sample[i].name = n THEN Entry(n, c) ELSE sample[i]]

\* np.dot(rotaxis2m(rotation_angle, axis vector), coord - origin) + origin
Rotated(angle, coord) == Append(coord, angle)

\* lines 143-157: the loop over the atoms after the axis
RECURSIVE RotateAtoms(_, _, _, _)
RotateAtoms(sample, angle, axis, atoms) ==
    IF atoms = <<>> THEN [err |-> OK, sample |-> sample]
    ELSE LET atom == Head(atoms)
         IN  IF ~({axis[1], axis[2], atom} \subseteq Keys(sample))
             THEN [err |-> "KeyError", sample |-> sample]
             ELSE RotateAtoms(Put(sample, atom, Rotated(angle, Get(sample, atom))),
                              angle, axis, Tail(atoms))

\* lines 131-157: the loop over CHI1..CHI4; trace records each completed step
RECURSIVE ChiSteps(_, _, _, _, _)
ChiSteps(sample, mutate_to, selected_rotamer, angles, trace) ==
    IF angles = <<>> THEN [err |-> OK, sample |-> sample, trace |-> trace]
    ELSE LET angle == Head(angles)
         IN  IF mutate_to \notin DOMAIN CHI_ANGLES[angle]
             THEN ChiSteps(sample, mutate_to, selected_rotamer, Tail(angles), trace)
             ELSE LET def == CHI_ANGLES[angle][mutate_to]
                      rot == RotateAtoms(sample, angle, def.axis,
                                         AfterAxis(mutate_to, def.axis))
                      step == [angle |-> angle,
                               ref |-> [i \in 1..4 |-> Get(sample, def.ref_plane[i])],
                               before |-> sample,
                               after |-> rot.sample]
                  IN  IF ~(SeqRange(def.ref_plane) \subseteq Keys(sample))
                      THEN [err |-> "KeyError", sample |-> sample, trace |-> trace]
                      ELSE IF angle \notin selected_rotamer
                      THEN [err |-> "KeyError", sample |-> sample, trace |-> trace]
                      ELSE IF rot.err # OK
                      THEN [err |-> rot.err, sample |-> rot.sample, trace |-> trace]
                      ELSE ChiSteps(rot.sample, mutate_to, selected_rotamer,
                                    Tail(angles), Append(trace, step))

\* lines 129-157
Rotations(sample, mutate_to, selected_rotamer) ==
    IF mutate_to \notin {"ALA", "GLY"}
    THEN ChiSteps(sample, mutate_to, selected_rotamer, AngleList, <<>>)
    ELSE [err |-> OK, sample |-> sample, trace |-> <<>>]

\* the loop over the sample with the backbone filter left out
RECURSIVE AddSideChain_Unfiltered(_, _)
AddSideChain_Unfiltered(children, items) ==
    IF items = <<>> THEN [err |-> OK, children |-> children]
    ELSE LET res == ResidueAdd(children, NewAtom(Head(items).name, Head(items).coord))
         IN  IF res.err # OK THEN res
             ELSE AddSideChain_Unfiltered(res.children, Tail(items))

\* lines 158-172: the loop over sample_residue.items()
RECURSIVE AddSideChain(_, _)
AddSideChain(children, items) ==
    IF items = <<>> THEN [err |-> OK, children |-> children]
    ELSE LET item == Head(items)
         IN  IF item.name \in BackboneNames
             THEN AddSideChain(children, Tail(items))
             ELSE LET res == ResidueAdd(children, NewAtom(item.name, item.coord))
                  IN  IF res.err # OK THEN res
                      ELSE AddSideChain(res.children, Tail(items))

\* mutate with the final assignment of resname left out
FinalResname_Kept(old, mutate_to, err) == old

\* line 173: the name the residue has when mutate ends
FinalResname(old, mutate_to, err) == IF err = OK THEN mutate_to ELSE old

\* mutate with a rollback of the residue's atoms when it fails
Mutate_RollsBack(children, old_resname, mutate_to, sample_residue, selected_rotamer) ==
    LET chi == Rotations(sample_residue, mutate_to, selected_rotamer)
        added == AddSideChain(children, chi.sample)
        err == IF chi.err # OK THEN chi.err ELSE added.err
    IN  [err |-> err,
         children |-> IF err # OK THEN children ELSE added.children,
         resname |-> FinalResname(old_resname, mutate_to, err),
         sample |-> chi.sample,
         trace |-> chi.trace]

\* Residue.mutate as a whole
Mutate(children, old_resname, mutate_to, sample_residue, selected_rotamer) ==
    LET chi == Rotations(sample_residue, mutate_to, selected_rotamer)
        added == AddSideChain(children, chi.sample)
        err == IF chi.err # OK THEN chi.err ELSE added.err
    IN  [err |-> err,
         children |-> IF chi.err # OK THEN children ELSE added.children,
         resname |-> FinalResname(old_resname, mutate_to, err),
         sample |-> chi.sample,
         trace |-> chi.trace]

(***************************************************************************)
(* DisorderedEntityWrapper: child_dict is an insertion-ordered mapping     *)
(* key -> residue, held as a sequence of entries.                          *)
(***************************************************************************)
Variant(k, r) == [key |-> k, res |-> r]

DictKeys(d) == {d[i].key : i \in DOMAIN d}

disordered_has_id(d, k) == k \in DictKeys(d)

DictGet(d, k) == d[CHOOSE i \in DOMAIN d : d[i].key = k].res

\* self[resname] = residue
DictSet(d, k, r) ==
    IF k \in DictKeys(d)
    THEN [i \in DOMAIN d |-> IF d[i].key = k THEN Variant(k, r) ELSE d[i]]
    ELSE Append(d, Variant(k, r))

\* del self.child_dict[resname]
DictDel(d, k) ==
    LET i == CHOOSE j \in DOMAIN d : d[j].key = k
    IN  SubSeq(d, 1, i - 1) \o SubSeq(d, i + 1, Len(d))

\* the wrapper's own parent, given to every registered variant
dr_parent == "chain"

\* disordered_add with the assertion left out
DisorderedAdd_Unasserted(d, sel, r, k) ==
    [err |-> OK, dict |-> DictSet(d, k, r), selected |-> DictGet(DictSet(d, k, r), k)]

\* DisorderedResidue.disordered_add: the wrapper after the call
DisorderedAdd(d, sel, r, k) ==
    IF disordered_has_id(d, k)
    THEN [err |-> "AssertionError", dict |-> d, selected |-> sel]
    ELSE [err |-> OK, dict |-> DictSet(d, k, r), selected |-> DictGet(DictSet(d, k, r), k)]

\* the last key of the mapping instead of the first
FirstKey_Last(d) == d[Len(d)].key

\* next(iter(self.child_dict))
FirstKey(d) == d[1].key

\* DisorderedResidue.disordered_remove: the wrapper after the call
DisorderedRemove(d, sel, k) ==
    IF ~disordered_has_id(d, k)
    THEN [err |-> "KeyError", dict |-> d, selected |-> sel, removed |-> None]
    ELSE LET residue == DictGet(d, k)
             is_selected == (sel = residue)
             rest == DictDel(d, k)
         IN  [err |-> OK, dict |-> rest, removed |-> residue,
              selected |-> IF is_selected /\ rest # <<>> THEN DictGet(rest, FirstKey(rest))
                           ELSE IF rest = <<>> THEN None
                           ELSE sel]

\* DisorderedResidue.add raising before it adds the atom
DisorderedResidueAdd_RaisesFirst(children, atom) ==
    IF atom.disordered # 2
    THEN [err |-> BlankAltloc, children |-> children]
    ELSE ResidueAdd(children, atom)

\* DisorderedResidue.add: what happens to the selected variant's atoms
DisorderedResidueAdd(children, atom) ==
    LET res == ResidueAdd(children, atom)
    IN  IF atom.disordered # 2
        THEN IF res.err # OK THEN res
             ELSE [err |-> BlankAltloc, children |-> res.children]
        ELSE res

(***************************************************************************)
(* The chain: the residue r1 and the wrapper are its children.             *)
(***************************************************************************)
DR == "DR"

IdPlain == <<" ", 44, " ">>
IdDisordered == <<" ", 60, " ">>

chain_child(i) == IF i = IdPlain THEN "r1" ELSE IF i = IdDisordered THEN DR ELSE None

\* chain[i].get_resname(); the wrapper forwards to its selected variant
ChainLookupResname(i) ==
    IF chain_child(i) = DR
    THEN IF selected_child = None THEN "AttributeError" ELSE resname[selected_child]
    ELSE IF chain_child(i) \in Res THEN resname[chain_child(i)]
    ELSE "KeyError"

(***************************************************************************)
(* The record of the last call: its arguments, its outcome and the state   *)
(* it started from.                                                        *)
(***************************************************************************)
Call(op, r, err, atom, key, sin, sout, rot, trace) ==
    [op |-> op, r |-> r, err |-> err, atom |-> atom, key |-> key,
     sample_in |-> sin, sample_out |-> sout, rotamer |-> rot, trace |-> trace,
     pre_children |-> IF r \in Res THEN child_list[r] ELSE <<>>,
     pre_resname |-> IF r \in Res THEN resname[r] ELSE None,
     pre_parent |-> IF r \in Res THEN parent[r] ELSE None,
     pre_id |-> IF r \in Res THEN id[r] ELSE <<>>,
     pre_segid |-> IF r \in Res THEN segid[r] ELSE None,
     pre_dict |-> child_dict,
     pre_selected |-> selected_child]

Init ==
    /\ resname = [r \in Res |-> IF r = "r1" THEN "GLY" ELSE IF r = "r2" THEN "SER" ELSE "ALA"]
    /\ segid = [r \in Res |-> "    "]
    /\ id = [r \in Res |-> IF r = "r1" THEN IdPlain ELSE IdDisordered]
    /\ parent = [r \in Res |-> IF r = "r1" THEN "chain" ELSE None]
    /\ child_list = [r \in Res |->
            IF r = "r1" THEN BackboneAtoms
            ELSE IF r = "r2" THEN BackboneAtoms \o <<MkAtom("CB", 0, 5, <<>>), MkAtom("OG", 0, 6, <<>>)>>
            ELSE BackboneAtoms \o <<MkAtom("CB", 0, 5, <<>>)>>]
    /\ child_dict = <<>>
    /\ selected_child = None
    /\ last = [op |-> "init", r |-> None, err |-> OK, atom |-> NoAtom, key |-> None,
               sample_in |-> <<>>, sample_out |-> <<>>, rotamer |-> {}, trace |-> <<>>,
               pre_children |-> <<>>, pre_resname |-> None, pre_parent |-> None,
               pre_id |-> <<>>, pre_segid |-> None, pre_dict |-> <<>>,
               pre_selected |-> None]

(***************************************************************************)
(* Inputs.                                                                 *)
(***************************************************************************)
InputAtoms == {MkAtom("CB", 0, 7, <<>>), MkAtom("CB", 2, 8, <<>>), MkAtom("N", 0, 9, <<>>)}

Fresh(names) == [i \in DOMAIN names |-> Entry(names[i], <<>>)]

Samples ==
    { Fresh(RESIDUE_ORDER["GLY"]),
      Fresh(RESIDUE_ORDER["ALA"]),
      Fresh(RESIDUE_ORDER["SER"]),
      Fresh(<<"N", "CA", "C", "O", "OG", "CB">>),
      Fresh(RESIDUE_ORDER["LYS"]),
      Fresh(<<"N", "CA", "C", "O", "CB", "CG", "CD">>) }

Rotamers == { {"CHI1", "CHI2", "CHI3", "CHI4"}, {"CHI1", "CHI2"} }

(***************************************************************************)
(* Actions: one per call.                                                  *)
(***************************************************************************)
\* residue.add(atom)
add(r, atom) ==
    /\ Len(child_list[r]) < MaxAtoms
    /\ LET res == ResidueAdd(child_list[r], atom)
       IN  /\ child_list' = [child_list EXCEPT ![r] = res.children]
           /\ last' = Call("add", r, res.err, atom, None, <<>>, <<>>, {}, <<>>)
    /\ UNCHANGED <<resname, segid, id, parent, child_dict, selected_child>>

\* residue.mutate(mutate_to, sample_residue, selected_rotamer)
mutate(r, mutate_to, sample_residue, selected_rotamer) ==
    /\ LET res == Mutate(child_list[r], resname[r], mutate_to, sample_residue, selected_rotamer)
       IN  /\ child_list' = [child_list EXCEPT ![r] = res.children]
           /\ resname' = [resname EXCEPT ![r] = res.resname]
           /\ last' = Call("mutate", r, res.err, NoAtom, mutate_to, sample_residue,
                           res.sample, selected_rotamer, res.trace)
    /\ UNCHANGED <<segid, id, parent, child_dict, selected_child>>

\* disordered_residue.add(atom)
dr_add(atom) ==
    /\ IF selected_child = None
       THEN /\ last' = Call("dr_add", None, "AttributeError", atom, None, <<>>, <<>>, {}, <<>>)
            /\ UNCHANGED child_list
       ELSE /\ Len(child_list[selected_child]) < MaxAtoms
            /\ LET res == DisorderedResidueAdd(child_list[selected_child], atom)
               IN  /\ child_list' = [child_list EXCEPT ![selected_child] = res.children]
                   /\ last' = Call("dr_add", selected_child, res.err, atom, None,
                                   <<>>, <<>>, {}, <<>>)
    /\ UNCHANGED <<resname, segid, id, parent, child_dict, selected_child>>

\* disordered_residue.disordered_add(residue)
disordered_add(r) ==
    /\ Len(child_dict) < MaxVariants
    /\ LET res == DisorderedAdd(child_dict, selected_child, r, resname[r])
       IN  /\ parent' = [parent EXCEPT ![r] = dr_parent]
           /\ child_dict' = res.dict
           /\ selected_child' = res.selected
           /\ last' = Call("disordered_add", r, res.err, NoAtom, resname[r],
                           <<>>, <<>>, {}, <<>>)
    /\ UNCHANGED <<resname, segid, id, child_list>>

\* disordered_residue.disordered_remove(resname)
disordered_remove(k) ==
    /\ LET res == DisorderedRemove(child_dict, selected_child, k)
       IN  /\ parent' = IF res.removed \in Res
                        THEN [parent EXCEPT ![res.removed] = None]
                        ELSE parent
           /\ child_dict' = res.dict
           /\ selected_child' = res.selected
           /\ last' = Call("disordered_remove", res.removed, res.err, NoAtom, k,
                           <<>>, <<>>, {}, <<>>)
    /\ UNCHANGED <<resname, segid, id, child_list>>

\* the calls made on a structure holding a disordered position: each
\* mutation is a target type with the sample of that type
VariantMutations == {<<"GLY", Fresh(RESIDUE_ORDER["GLY"])>>,
                     <<"SER", Fresh(RESIDUE_ORDER["SER"])>>}

Next ==
    \/ \E r \in Res, m \in VariantMutations : mutate(r, m[1], m[2], {"CHI1"})
    \/ \E atom \in InputAtoms : dr_add(atom)
    \/ \E r \in Res : disordered_add(r)
    \/ \E k \in ResNames : disordered_remove(k)

Spec == Init /\ [][Next]_vars

\* the calls made on the single residue r1, over every sample and rotamer
NextResidue ==
    \/ \E atom \in InputAtoms : add("r1", atom)
    \/ \E t \in ResNames, s \in Samples, rot \in Rotamers : mutate("r1", t, s, rot)

SpecResidue == Init /\ [][NextResidue]_vars

(***************************************************************************)
(* Properties.                                                             *)
(***************************************************************************)
IsCall(op) == last.op = op

\* the atoms mutate builds for the non-backbone entries of a sample, in order
RECURSIVE BuiltAtoms(_)
BuiltAtoms(items) ==
    IF items = <<>> THEN <<>>
    ELSE IF Head(items).name \in BackboneNames THEN BuiltAtoms(Tail(items))
    ELSE <<MkAtom(Head(items).name, 0, serial_number, Head(items).coord)>> \o BuiltAtoms(Tail(items))

IsPrefix(s, t) == Len(s) <= Len(t) /\ SubSeq(t, 1, Len(s)) = s

\* C1: Residue.add of an atom whose name is already held by the residue
\* raises the duplicate-atom error and leaves the residue's atoms (names,
\* objects and insertion order) as they were.
C1_DuplicateAddRejected ==
    (IsCall("add") /\ last.atom.name \in NamesOf(last.pre_children))
        => /\ last.err = DuplicateAtom
           /\ child_list[last.r] = last.pre_children

\* a different atom object carrying a held name was offered and rejected
C1_Witness ==
    /\ IsCall("add")
    /\ last.atom.name \in NamesOf(last.pre_children)
    /\ last.atom \notin SeqRange(last.pre_children)
    /\ last.err = DuplicateAtom

\* C2: after any sequence of disordered_add, disordered_remove and mutate
\* calls, no two variants held by the wrapper have the same resname, the
\* selected variant is one of the variants of the mapping, and the selection
\* is empty exactly when the mapping is empty.
C2_VariantInvariant ==
    /\ \A i, j \in DOMAIN child_dict :
          child_dict[i].res # child_dict[j].res
              => resname[child_dict[i].res] # resname[child_dict[j].res]
    /\ selected_child # None => selected_child \in {child_dict[i].res : i \in DOMAIN child_dict}
    /\ (selected_child = None) <=> (child_dict = <<>>)

\* C3: disordered_add selects the variant it registers (the most recently
\* added); disordered_remove of the selected variant selects the first
\* remaining variant in insertion order, or nothing when none remains;
\* disordered_remove of another variant leaves the selection as it was.
C3_SelectionFollowsAddAndRemove ==
    /\ (IsCall("disordered_add") /\ last.err = OK)
          => /\ child_dict = Append(last.pre_dict, Variant(last.key, last.r))
             /\ selected_child = last.r
    /\ (IsCall("disordered_remove") /\ last.err = OK)
          => LET rest == SelectSeq(last.pre_dict, LAMBDA v : v.key # last.key)
             IN  /\ child_dict = rest
                 /\ IF last.pre_selected = last.r
                    THEN selected_child = (IF rest = <<>> THEN None ELSE rest[1].res)
                    ELSE selected_child = last.pre_selected

\* the selected variant of three was removed and the oldest one took over
C3_Witness ==
    /\ IsCall("disordered_remove")
    /\ last.err = OK
    /\ last.pre_selected = last.r
    /\ Len(child_dict) = 2
    /\ child_dict[1].res # child_dict[2].res
    /\ selected_child = child_dict[1].res

\* the variant a dr_add call acted on holds the atom object it was given
AtomStored == last.r \in Res /\ last.atom \in SeqRange(child_list[last.r])

\* C4 as stated, for a wrapper that has a selected variant: add of a plain
\* atom raises the blank-altloc error with the atom stored in the selected
\* variant, and add of an alternate-location group stores it without error.
C4_AsClaimed ==
    (IsCall("dr_add") /\ last.pre_selected # None)
        => IF last.atom.disordered # 2
           THEN last.err = BlankAltloc /\ AtomStored
           ELSE last.err = OK /\ AtomStored

\* C4 amended: that holds when the atom's name is not yet held by the
\* selected variant; when it is held, Residue.add's duplicate-atom error is
\* what the caller gets and the variant's atoms are unchanged; with no
\* selected variant the call fails with AttributeError and changes nothing.
C4_BlankAltlocUnlessDuplicate ==
    IsCall("dr_add") =>
        IF last.pre_selected = None
        THEN last.err = "AttributeError"
        ELSE /\ last.r = last.pre_selected
             /\ IF last.atom.name \in NamesOf(last.pre_children)
                THEN /\ last.err = DuplicateAtom
                     /\ child_list[last.r] = last.pre_children
                ELSE /\ child_list[last.r] = Append(last.pre_children, last.atom)
                     /\ last.err = (IF last.atom.disordered # 2 THEN BlankAltloc ELSE OK)

\* a plain atom was stored in the selected variant and the error raised
C4_Witness ==
    /\ IsCall("dr_add")
    /\ last.atom.disordered = 0
    /\ last.err = BlankAltloc
    /\ last.r = selected_child
    /\ AtomStored

\* mutate to ALA or GLY was called on a residue holding only backbone atoms
BackboneOnlyCall ==
    /\ IsCall("mutate")
    /\ last.key \in {"ALA", "GLY"}
    /\ NamesOf(last.pre_children) \subseteq BackboneNames

\* C5 as stated: such a call, whatever the sample, renames the residue,
\* rotates nothing and leaves the residue's atoms as they were.
C5_AsClaimed ==
    BackboneOnlyCall
        => /\ last.err = OK
           /\ resname[last.r] = last.key
           /\ last.trace = <<>> /\ last.sample_out = last.sample_in
           /\ child_list[last.r] = last.pre_children

\* C5 amended: such a call renames the residue and rotates nothing, and the
\* residue's atoms afterwards are its atoms before followed by one new atom
\* per non-backbone entry of the sample, in the sample's order (so the atoms
\* are unchanged only when the sample holds backbone names alone).
C5_NoRotationAddsSampleSideChain ==
    BackboneOnlyCall
        => /\ last.err = OK
           /\ resname[last.r] = last.key
           /\ last.trace = <<>> /\ last.sample_out = last.sample_in
           /\ child_list[last.r] = last.pre_children \o BuiltAtoms(last.sample_in)

\* ALA was given its sample and the residue gained the sample's CB
C5_Witness ==
    /\ BackboneOnlyCall
    /\ last.key = "ALA"
    /\ "CB" \in Keys(last.sample_in)
    /\ "CB" \in NamesOf(child_list[last.r])
    /\ resname[last.r] = "ALA"

\* C6: mutate of a residue that holds side-chain atoms, given the sample of
\* the target type, completes without error and leaves the residue with
\* its backbone atoms unchanged plus exactly the sample's side-chain atoms.
C6_SideChainReplaced ==
    ( /\ IsCall("mutate")
      /\ ~(NamesOf(last.pre_children) \subseteq BackboneNames)
      /\ Keys(last.sample_in) = SeqRange(RESIDUE_ORDER[last.key])
      /\ last.rotamer = SeqRange(AngleList) )
        => /\ last.err = OK
           /\ child_list[last.r] =
                 SelectSeq(last.pre_children, LAMBDA a : a.name \in BackboneNames)
                     \o BuiltAtoms(last.sample_out)

\* the chi angles defined for a residue type, ascending
DefinedAngles(t) == SelectSeq(AngleList, LAMBDA a : t \in DOMAIN CHI_ANGLES[a])

\* name n stands strictly after name m in the canonical order of type t
StrictlyAfter(t, n, m) ==
    /\ n \in SeqRange(RESIDUE_ORDER[t])
    /\ \E i, j \in DOMAIN RESIDUE_ORDER[t] :
          RESIDUE_ORDER[t][i] = m /\ RESIDUE_ORDER[t][j] = n /\ i < j

\* C7: within one mutate call the chi steps run in ascending order over the
\* angles defined for the target type, each step starts from the sample as
\* the step before left it, and a step overwrites exactly the entries of the
\* atoms strictly after the axis's second atom in the target type's
\* canonical order, every other entry keeping its coordinate.
C7_ChiStepsAscendingAndDownstream ==
    (IsCall("mutate") /\ last.key \notin {"ALA", "GLY"}) =>
        LET t == last.key
            steps == last.trace
        IN  /\ IsPrefix([i \in DOMAIN steps |-> steps[i].angle], DefinedAngles(t))
            /\ last.err # "KeyError" => Len(steps) = Len(DefinedAngles(t))
            /\ \A i \in DOMAIN steps :
                  LET def == CHI_ANGLES[steps[i].angle][t]
                      before == steps[i].before
                      after == steps[i].after
                  IN  /\ before = (IF i = 1 THEN last.sample_in ELSE steps[i - 1].after)
                      /\ steps[i].ref = [k \in 1..4 |-> Get(before, def.ref_plane[k])]
                      /\ [k \in DOMAIN after |-> after[k].name] =
                            [k \in DOMAIN before |-> before[k].name]
                      /\ \A n \in Keys(before) :
                            IF StrictlyAfter(t, n, def.axis[2])
                            THEN Get(after, n) = Append(Get(before, n), steps[i].angle)
                            ELSE Get(after, n) = Get(before, n)
            /\ last.err # "KeyError" =>
                  last.sample_out = (IF steps = <<>> THEN last.sample_in
                                     ELSE steps[Len(steps)].after)

\* a mutation to LYS ran its four chi steps and completed
C7_Witness ==
    /\ IsCall("mutate")
    /\ last.key = "LYS"
    /\ last.err = OK
    /\ [i \in DOMAIN last.trace |-> last.trace[i].angle] = AngleList
    /\ Get(last.sample_out, "NZ") = AngleList
    /\ Get(last.sample_out, "CB") = <<>>

\* a mutate call returned without error on a residue that has a chain
MutatedInChain == IsCall("mutate") /\ last.err = OK /\ last.pre_parent = "chain"

\* the residue is what it was, renamed
RenamedInPlace ==
    /\ resname[last.r] = last.key
    /\ id[last.r] = last.pre_id
    /\ segid[last.r] = last.pre_segid
    /\ parent[last.r] = last.pre_parent

\* C8 as stated: after a mutate call that returns without error the
\* residue's resname is the target type, its id, segid and parent are
\* unchanged, and looking its id up in its chain gives a residue whose
\* resname is the target type.
C8_AsClaimed ==
    MutatedInChain
        => /\ RenamedInPlace
           /\ ChainLookupResname(id[last.r]) = last.key

\* C8 amended: resname, id, segid and parent are as stated for every
\* mutate call that returns without error; the lookup through the chain
\* gives the target type when the chain holds the residue itself under
\* that id, or holds a wrapper whose selected variant is the residue.
C8_RenamedInPlace ==
    /\ (IsCall("mutate") /\ last.err = OK) => RenamedInPlace
    /\ ( /\ MutatedInChain
         /\ \/ chain_child(id[last.r]) = last.r
            \/ chain_child(id[last.r]) = DR /\ selected_child = last.r )
          => ChainLookupResname(id[last.r]) = last.key

\* a selected variant was mutated to another type and the chain shows it
C8_Witness ==
    /\ MutatedInChain
    /\ last.pre_resname # last.key
    /\ chain_child(id[last.r]) = DR
    /\ selected_child = last.r
    /\ ChainLookupResname(id[last.r]) = last.key

\* C9: disordered_add of a residue whose resname is already a key of the
\* mapping fails with an assertion error, the mapping and the selection
\* being what they were before the call.
C9_DuplicateResnameAsserted ==
    (IsCall("disordered_add") /\ last.key \in DictKeys(last.pre_dict))
        => /\ last.err = "AssertionError"
           /\ child_dict = last.pre_dict
           /\ selected_child = last.pre_selected

\* another residue with a registered resname was offered and refused
C9_Witness ==
    /\ IsCall("disordered_add")
    /\ last.key \in DictKeys(last.pre_dict)
    /\ DictGet(last.pre_dict, last.key) # last.r
    /\ last.err = "AssertionError"
    /\ DictGet(child_dict, last.key) # last.r

\* C10: when mutate fails on a name collision nothing is rolled back: the
\* atoms held before the call are all still there, unaltered and in place,
\* the atoms built before the collision follow them, and resname is what it
\* was before the call.
C10_NoRollbackOnCollision ==
    (IsCall("mutate") /\ last.err = DuplicateAtom) =>
        LET added == SubSeq(child_list[last.r], Len(last.pre_children) + 1,
                            Len(child_list[last.r]))
            built == BuiltAtoms(last.sample_out)
        IN  /\ IsPrefix(last.pre_children, child_list[last.r])
            /\ IsPrefix(added, built)
            /\ Len(added) < Len(built)
            /\ built[Len(added) + 1].name \in NamesOf(child_list[last.r])
            /\ resname[last.r] = last.pre_resname

\* a mutation failed after it had already added an atom
C10_Witness ==
    /\ IsCall("mutate")
    /\ last.err = DuplicateAtom
    /\ Len(child_list[last.r]) > Len(last.pre_children)
    /\ last.key # last.pre_resname
    /\ resname[last.r] = last.pre_resname

====
